---- MODULE Spec2Model ----
(***************************************************************************)
(* digimarks: the bookmark lifecycle (add / edit / delete / undelete), the  *)
(* tag canonicalisation and the public tag shares of                        *)
(* src/digimarks/marks.py, as a state machine over the three peewee tables, *)
(* the favicon directory and the in-memory tag cache.                       *)
(*                                                                         *)
(* Python strings that the code takes apart (tag strings, urls) are         *)
(* sequences of one-character strings; '' is the empty sequence.            *)
(***************************************************************************)
EXTENDS Integers, Sequences, FiniteSets, TLC

VARIABLES
    users,       \* User table: the set of User.key values
    bookmarks,   \* Bookmark table: sequence of rows, the index is the row id
    publictags,  \* PublicTag table: set of rows [id, tagkey, userkey, tag]
    all_tags,    \* the module-level cache all_tags: userkey -> list of tags
    favicons,    \* files present in MEDIA_ROOT/favicons (domain + extension)
    keys_issued, \* number of os.urandom tag keys drawn so far
    now,         \* datetime.datetime.now()
    response,    \* what the last request answered
    newtags,     \* scratch Bookmark of the tag check: the string handed to set_tags
    tags,        \* scratch Bookmark of the tag check: its tags column after set_tags
    tags_res,    \* the list clean_tags returned last
    tags_done,   \* TRUE once set_tags has run on newtags
    revoked,     \* the PublicTag rows that delete queries have removed so far
    page,        \* the bookmarks the last /pub/<tagkey> or listing page listed, in order
    calls,       \* the file lookups and network requests the last request made
    procs        \* the requests in flight on the worker threads, by thread

tagvars == <<newtags, tags, tags_res, tags_done>>
dbvars == <<users, bookmarks, publictags, all_tags, favicons, keys_issued, now, response,
            revoked, page, calls, procs>>
vars == <<users, bookmarks, publictags, all_tags, favicons, keys_issued, now, response,
          newtags, tags, tags_res, tags_done, revoked, page, calls, procs>>

(***************************************************************************)
(* Bounds                                                                  *)
(***************************************************************************)
MaxTagLen == 5
MaxBookmarks == 2
MaxNow == 2
MaxTagKeys == 3

(***************************************************************************)
(* Python str primitives                                                   *)
(***************************************************************************)
\* ord() of the characters used
Ord(c) ==
    CASE c = " " -> 32
      [] c = "#" -> 35
      [] c = "," -> 44
      [] c = "/" -> 47
      [] c = ";" -> 59
      [] c = "?" -> 63
      [] c = "B" -> 66
      [] c = "a" -> 97
      [] c = "b" -> 98
      [] OTHER   -> 120

\* str.__lt__: lexicographic by code point, a proper prefix is smaller
RECURSIVE StrLess(_, _)
StrLess(s, t) ==
    IF t = <<>> THEN FALSE
    ELSE IF s = <<>> THEN TRUE
    ELSE IF Ord(Head(s)) # Ord(Head(t)) THEN Ord(Head(s)) < Ord(Head(t))
    ELSE StrLess(Tail(s), Tail(t))

IsSpace(c) == c = " "

\* str.lstrip(), str.rstrip(), str.strip()
RECURSIVE LStrip(_)
LStrip(s) == IF s # <<>> /\ IsSpace(Head(s)) THEN LStrip(Tail(s)) ELSE s

RECURSIVE RStrip(_)
RStrip(s) ==
    IF s # <<>> /\ IsSpace(s[Len(s)]) THEN RStrip(SubSeq(s, 1, Len(s) - 1)) ELSE s

Strip(s) == RStrip(LStrip(s))

\* str.split(','): one piece more than there are commas, '' gives ['']
RECURSIVE SplitAcc(_, _, _)
SplitAcc(s, cur, acc) ==
    IF s = <<>> THEN Append(acc, cur)
    ELSE IF Head(s) = "," THEN SplitAcc(Tail(s), <<>>, Append(acc, cur))
    ELSE SplitAcc(Tail(s), Append(cur, Head(s)), acc)

Split(s) == SplitAcc(s, <<>>, <<>>)

\* ','.join(list)
RECURSIVE Join(_)
Join(l) ==
    IF l = <<>> THEN <<>>
    ELSE IF Len(l) = 1 THEN l[1]
    ELSE l[1] \o <<",">> \o Join(Tail(l))

(***************************************************************************)
(* unique_everseen / clean_tags                                            *)
(***************************************************************************)
SeqElems(l) == {l[i] : i \in 1..Len(l)}

\* key is None branch: elements in order of first occurrence
RECURSIVE UniqueAcc(_, _, _)
UniqueAcc(l, seen, acc) ==
    IF l = <<>> THEN acc
    ELSE IF Head(l) \in seen THEN UniqueAcc(Tail(l), seen, acc)
    ELSE UniqueAcc(Tail(l), seen \cup {Head(l)}, Append(acc, Head(l)))

unique_everseen(iterable) == UniqueAcc(iterable, {}, <<>>)

\* list.sort() on str: ascending, stable
RECURSIVE Insert(_, _)
Insert(x, l) ==
    IF l = <<>> THEN <<x>>
    ELSE IF StrLess(x, Head(l)) THEN <<x>> \o l
    ELSE <<Head(l)>> \o Insert(x, Tail(l))

RECURSIVE Sort(_)
Sort(l) == IF l = <<>> THEN <<>> ELSE Insert(l[Len(l)], Sort(SubSeq(l, 1, Len(l) - 1)))

\* [x.strip() for x in tags_list]
StripAll(tags_list) == [i \in 1..Len(tags_list) |-> Strip(tags_list[i])]

\* if tags_res and tags_res[0] == '': del tags_res[0]
DelLeadingEmpty(res) ==
    IF res # <<>> /\ res[1] = <<>> THEN Tail(res) ELSE res

\* clean_tags without the deletion of the leading ''
clean_tags_keepempty(tags_list) == Sort(unique_everseen(StripAll(tags_list)))

\* clean_tags without the strip
clean_tags_nostrip(tags_list) == DelLeadingEmpty(Sort(unique_everseen(tags_list)))

\* clean_tags without the sort
clean_tags_nosort(tags_list) == DelLeadingEmpty(unique_everseen(StripAll(tags_list)))

clean_tags(tags_list) == DelLeadingEmpty(Sort(unique_everseen(StripAll(tags_list))))

\* Bookmark.set_tags: the value it leaves in self.tags
set_tags(new) == Join(clean_tags(Split(new)))

\* Bookmark.tags_list
tags_list(t) == IF t # <<>> THEN Split(t) ELSE <<>>

(***************************************************************************)
(* urllib.parse.urlparse / urlunparse, on the parts the code uses          *)
(***************************************************************************)
\* str.find(c, start): 1-based index of the first c at or after start, 0 if none
RECURSIVE Find(_, _, _)
Find(s, c, start) ==
    IF start > Len(s) THEN 0
    ELSE IF s[start] = c THEN start
    ELSE Find(s, c, start + 1)

\* str.rfind(c): index of the last c, 0 if none
RECURSIVE RFind(_, _, _)
RFind(s, c, end) ==
    IF end < 1 THEN 0
    ELSE IF s[end] = c THEN end
    ELSE RFind(s, c, end - 1)

Prefix(s, n) == SubSeq(s, 1, n)
Suffix(s, n) == SubSeq(s, n, Len(s))

SchemeChars == {"h", "t", "p", "s", "f"}
\* urllib.parse.uses_params / uses_netloc, restricted to the schemes that occur
uses_params == {<<>>, <<"h", "t", "t", "p">>}
uses_netloc == {<<>>, <<"h", "t", "t", "p">>}

\* first index at or after start of a character of '/?#', Len+1 if none
RECURSIVE NetlocEnd(_, _)
NetlocEnd(s, start) ==
    IF start > Len(s) THEN Len(s) + 1
    ELSE IF s[start] \in {"/", "?", "#"} THEN start
    ELSE NetlocEnd(s, start + 1)

\* urlsplit, the scheme: <<scheme, rest>>
SplitScheme(url) ==
    LET colon == Find(url, ":", 1)
    IN  IF colon > 1 /\ \A k \in 1..(colon - 1) : url[k] \in SchemeChars
        THEN <<Prefix(url, colon - 1), Suffix(url, colon + 1)>>
        ELSE << <<>>, url >>

\* urlsplit, _splitnetloc after a leading '//': <<netloc, rest>>
SplitNetloc(rest) ==
    IF Len(rest) >= 2 /\ rest[1] = "/" /\ rest[2] = "/"
    THEN LET nend == NetlocEnd(rest, 3)
         IN  <<SubSeq(rest, 3, nend - 1), Suffix(rest, nend)>>
    ELSE << <<>>, rest >>

\* str.split(c, 1): <<before, after>>, after '' when c does not occur
SplitFirst(s, c) ==
    LET i == Find(s, c, 1)
    IN  IF i > 0 THEN <<Prefix(s, i - 1), Suffix(s, i + 1)>> ELSE <<s, <<>> >>

\* _splitparams, for a scheme of uses_params: <<path, params>>
SplitParams(scheme, path) ==
    LET slash == RFind(path, "/", Len(path))
        semi  == Find(path, ";", IF slash > 0 THEN slash ELSE 1)
    IN  IF scheme \in uses_params /\ semi > 0
        THEN <<Prefix(path, semi - 1), Suffix(path, semi + 1)>>
        ELSE <<path, <<>> >>

\* urlparse(url) -> [scheme, netloc, path, params, query, fragment]
urlparse(url) ==
    LET sch == SplitScheme(url)
        net == SplitNetloc(sch[2])
        frg == SplitFirst(net[2], "#")
        qry == SplitFirst(frg[1], "?")
        prm == SplitParams(sch[1], qry[1])
    IN  [scheme |-> sch[1], netloc |-> net[1], path |-> prm[1],
         params |-> prm[2], query |-> qry[2], fragment |-> frg[2]]

\* urlunparse((scheme, netloc, path, params, query, fragment))
urlunparse(p) ==
    LET u1 == IF p.params # <<>> THEN p.path \o <<";">> \o p.params ELSE p.path
        net == \/ p.netloc # <<>>
               \/ /\ p.scheme # <<>>
                  /\ p.scheme \in uses_netloc
                  /\ ~(Len(u1) >= 2 /\ u1[1] = "/" /\ u1[2] = "/")
        u2 == IF net
              THEN <<"/", "/">> \o p.netloc
                   \o (IF u1 # <<>> /\ u1[1] # "/" THEN <<"/">> \o u1 ELSE u1)
              ELSE u1
        u3 == IF p.scheme # <<>> THEN p.scheme \o <<":">> \o u2 ELSE u2
        u4 == IF p.query # <<>> THEN u3 \o <<"?">> \o p.query ELSE u3
    IN  IF p.fragment # <<>> THEN u4 \o <<"#">> \o p.fragment ELSE u4

\* Bookmark.strip_url_params
strip_url_params(url) ==
    LET parsed == urlparse(url)
    IN  urlunparse([parsed EXCEPT !.query = <<>>])

\* hashlib.md5(url.encode('utf-8')).hexdigest(): a digest is kept as the tagged
\* message it digests, so two digests are equal exactly when the urls are
\* (md5 collisions are not modelled); no digest is the empty string
md5_hexdigest(url) == <<"md5">> \o url

(***************************************************************************)
(* The urls, form fields and network answers the requests are drawn from   *)
(***************************************************************************)
UrlP  == <<"h", "t", "t", "p", ":", "/", "/", "x", "/", "p">>
UrlPQ == UrlP \o <<"?", "q">>
UrlNoScheme == <<"x", "/", "p">>
NoUrl == <<>>

TitleT == <<"T">>
PageTitle == <<"P">>

TagsBA == <<"b", ",", " ", "a">>
TagsA  == <<"a", ",", ",", "a">>

(***************************************************************************)
(* Bookmark rows and methods                                               *)
(***************************************************************************)
\* None in a str column and in a DateTimeField: no string of the model has a
\* four-letter element, and dates start at 1
Null == <<"None">>
NullDate == 0

VISIBLE == 0
DELETED == 1
HTTP_CONNECTIONERROR == 0
HTTP_OK == 200
HTTP_ACCEPTED == 202
HTTP_NOTFOUND == 404

\* a new row that is stamped as modified
NewBookmark_modified(userkey, url, t) ==
    [userkey |-> userkey, title |-> <<>>, url |-> url, note |-> <<>>,
     url_hash |-> <<>>, tags |-> <<>>, starred |-> FALSE, favicon |-> Null,
     http_status |-> HTTP_OK, created_date |-> t, modified_date |-> t,
     deleted_date |-> NullDate, status |-> VISIBLE]

\* the row Bookmark.get_or_create(url=url, userkey=userkey) inserts: the two
\* given columns and the field defaults
NewBookmark(userkey, url, t) ==
    [userkey |-> userkey, title |-> <<>>, url |-> url, note |-> <<>>,
     url_hash |-> <<>>, tags |-> <<>>, starred |-> FALSE, favicon |-> Null,
     http_status |-> HTTP_OK, created_date |-> t, modified_date |-> NullDate,
     deleted_date |-> NullDate, status |-> VISIBLE]

\* Bookmark.set_hash
set_hash(b) == [b EXCEPT !.url_hash = md5_hexdigest(b.url)]

\* Bookmark.set_title_from_source; get is the answer of requests.get:
\* [exc, status_code, title], exc the exception raised or "none", title Null
\* when the page has no <title>.  The bare except catches every exception.
set_title_from_source(b, get) ==
    IF get.exc # "none" THEN [b EXCEPT !.http_status = HTTP_NOTFOUND]
    ELSE IF get.status_code = HTTP_OK \/ get.status_code = HTTP_ACCEPTED
    THEN [b EXCEPT !.http_status = get.status_code,
                   !.title = IF get.title = Null THEN <<>> ELSE Strip(get.title)]
    ELSE [b EXCEPT !.http_status = get.status_code]

\* Bookmark.set_status_code; head is the answer of requests.head:
\* [exc, status_code], exc the exception raised or "none".  Only
\* requests.ConnectionError is caught: the class and its subclasses, of which
\* ConnectTimeout is the timeout that a request without timeout= can end in
ConnectionErrors == {"ConnectionError", "ConnectTimeout"}

set_status_code_raises(head) == head.exc \notin {"none"} \cup ConnectionErrors

\* a set_status_code that records 404 for a failed request, as
\* set_title_from_source does
set_status_code_404(b, head) ==
    IF head.exc \in ConnectionErrors THEN [b EXCEPT !.http_status = HTTP_NOTFOUND]
    ELSE [b EXCEPT !.http_status = head.status_code]

set_status_code(b, head) ==
    IF head.exc \in ConnectionErrors THEN [b EXCEPT !.http_status = HTTP_CONNECTIONERROR]
    ELSE [b EXCEPT !.http_status = head.status_code]

\* Bookmark._set_favicon_with_realfavicongenerator.  fav describes the
\* provider and the disk: fav.first and fav.second are the answers to the
\* android_chrome and the desktop request, [exc, status_code, content_length,
\* content_type], a header that is not sent being "absent"; fav.io is "ok", "open" (open() fails) or "copy" (the copy or
\* the decompression fails after the file was created).
\* Result: [raised, bookmark, favicons, calls]; raised is "none", "IOError"
\* (requests' exceptions derive from IOError) or "KeyError".
FaviconExtension(content_type) ==
    IF content_type = "image/x-icon" THEN <<".", "i", "c", "o">>
    ELSE IF content_type = "image/jpeg" THEN <<".", "j", "p", "g">>
    ELSE <<".", "p", "n", "g">>

\* both requests to the provider whatever the first answers
ProviderCalls_both(fav) == <<"GET android_chrome", "GET desktop">>

\* the requests to the provider: the android_chrome icon, and the desktop
\* icon when that request answered 404
ProviderCalls(fav) ==
    IF fav.first.exc = "none" /\ fav.first.status_code = 404
    THEN <<"GET android_chrome", "GET desktop">>
    ELSE <<"GET android_chrome">>

set_favicon_with_realfavicongenerator(b, files, domain, fav) ==
    LET pass(r) == [raised |-> r, bookmark |-> b, favicons |-> files,
                    calls |-> ProviderCalls(fav)]
    IN  IF fav.first.exc # "none" THEN pass("IOError")
        ELSE IF fav.first.status_code = 404 /\ fav.second.exc # "none" THEN pass("IOError")
        ELSE LET resp == IF fav.first.status_code = 404 THEN fav.second ELSE fav.first
                 filename == domain \o FaviconExtension(resp.content_type)
             IN  IF resp.content_length = "0" THEN pass("none")
                 ELSE IF resp.content_type = "absent" THEN pass("KeyError")
                 ELSE IF fav.io = "open" THEN pass("IOError")
                 ELSE IF fav.io = "copy"
                 THEN [raised |-> "IOError", bookmark |-> b,
                       favicons |-> files \cup {filename},
                       calls |-> ProviderCalls(fav)]
                 ELSE [raised |-> "none",
                       bookmark |-> [b EXCEPT !.favicon = filename],
                       favicons |-> files \cup {filename},
                       calls |-> ProviderCalls(fav)]

\* Bookmark.set_favicon
set_favicon(b, files, fav) ==
    LET domain == urlparse(b.url).netloc
        png == domain \o <<".", "p", "n", "g">>
        ico == domain \o <<".", "i", "c", "o">>
    IN  IF png \in files
        THEN [raised |-> "none", bookmark |-> [b EXCEPT !.favicon = png],
              favicons |-> files, calls |-> <<"isfile .png">>]
        ELSE IF ico \in files
        THEN [raised |-> "none", bookmark |-> [b EXCEPT !.favicon = ico],
              favicons |-> files, calls |-> <<"isfile .png", "isfile .ico">>]
        ELSE [set_favicon_with_realfavicongenerator(b, files, domain, fav)
                EXCEPT !.calls = <<"isfile .png", "isfile .ico">> \o @]

\* get_tags_for_user
RECURSIVE ConcatTags(_, _)
ConcatTags(bms, userkey) ==
    IF bms = <<>> THEN <<>>
    ELSE (IF Head(bms).userkey = userkey /\ Head(bms).status = VISIBLE
          THEN tags_list(Head(bms).tags) ELSE <<>>)
         \o ConcatTags(Tail(bms), userkey)

\* get_tags_for_user without the clean_tags
get_tags_for_user_unclean(bms, userkey) == ConcatTags(bms, userkey)

get_tags_for_user(bms, userkey) == clean_tags(ConcatTags(bms, userkey))

\* all_tags[userkey] = value
SetCache(cache, userkey, value) ==
    [k \in DOMAIN cache \cup {userkey} |-> IF k = userkey THEN value ELSE cache[k]]

\* get_cached_tags
get_cached_tags(cache, userkey) ==
    IF userkey \in DOMAIN cache THEN cache[userkey] ELSE <<>>

(***************************************************************************)
(* updatebookmark                                                          *)
(***************************************************************************)
\* lines 748-755: the form's values, the url stripped on request, the hash
SetFields(b, form) ==
    set_hash([b EXCEPT !.title = form.title,
                       !.url = IF form.strip THEN strip_url_params(form.url)
                               ELSE form.url,
                       !.starred = form.starred,
                       !.tags = set_tags(form.tags),
                       !.note = form.note])

\* the favicon step without the test of http_status
FetchFavicon_always(b, files, fav) ==
    IF set_favicon(b, files, fav).raised = "IOError"
    THEN [raised |-> "none", bookmark |-> b,
          favicons |-> set_favicon(b, files, fav).favicons,
          calls |-> set_favicon(b, files, fav).calls]
    ELSE set_favicon(b, files, fav)

\* lines 763-771: the favicon for a page that answered 200 or 202, IOError
\* swallowed, any other exception leaving the function
FetchFavicon(b, files, fav) ==
    IF b.http_status = HTTP_OK \/ b.http_status = HTTP_ACCEPTED
    THEN IF set_favicon(b, files, fav).raised = "IOError"
         THEN [raised |-> "none", bookmark |-> b,
               favicons |-> set_favicon(b, files, fav).favicons,
               calls |-> set_favicon(b, files, fav).calls]
         ELSE set_favicon(b, files, fav)
    ELSE [raised |-> "none", bookmark |-> b, favicons |-> files, calls |-> <<>>]

\* the result r of the steps that follow a request c
After(c, r) == [r EXCEPT !.calls = <<c>> \o @]

\* lines 757-771: the one GET (no title) or HEAD (title) request, then the
\* favicon
FetchStatus(b, form, files, net, fav) ==
    IF form.title = <<>>
    THEN After("GET", FetchFavicon(set_title_from_source(b, net), files, fav))
    ELSE IF set_status_code_raises(net)
    THEN [raised |-> net.exc, bookmark |-> b, favicons |-> files, calls |-> <<"HEAD">>]
    ELSE After("HEAD", FetchFavicon(set_status_code(b, net), files, fav))

\* The part of updatebookmark after the row was obtained (lines 748-771): b is
\* the in-memory Bookmark, net the answer to the one GET or HEAD request it
\* makes.  Result: [raised, bookmark, favicons, calls]; when raised # "none" the
\* function left by an exception and bookmark.save() was not reached.
FillBookmark(b, form, files, net, fav) ==
    FetchStatus(SetFields(b, form), form, files, net, fav)

\* What the outside world answers during one updatebookmark call: net is
\* the answer to the one GET (no title submitted) or HEAD (title submitted)
\* request, fav the favicon provider and the disk.
GetAnswer(exc, status_code, title) == [exc |-> exc, status_code |-> status_code, title |-> title]
HeadAnswer(exc, status_code) == [exc |-> exc, status_code |-> status_code]
Provider(exc, status_code, content_length, content_type) ==
    [exc |-> exc, status_code |-> status_code, content_length |-> content_length,
     content_type |-> content_type]

GetRaises == GetAnswer("ConnectionError", 0, Null)
GetOk == GetAnswer("none", 200, PageTitle)
HeadOk == HeadAnswer("none", 200)
HeadConnectionError == HeadAnswer("ConnectionError", 0)
\* requests refuses a url without a scheme before anything is sent
HeadMissingSchema == HeadAnswer("MissingSchema", 0)

FavPng ==
    [first |-> Provider("none", 200, "n", "image/png"),
     second |-> Provider("none", 200, "n", "image/png"), io |-> "ok"]

GetEnvs == {[net |-> GetRaises, fav |-> FavPng], [net |-> GetOk, fav |-> FavPng]}

HeadEnvs ==
    {[net |-> HeadOk, fav |-> FavPng],
     [net |-> HeadConnectionError, fav |-> FavPng]}

Envs(form) ==
    IF form.url = <<>> THEN {[net |-> HeadOk, fav |-> FavPng]}
    ELSE IF urlparse(form.url).scheme = <<>>
    THEN {[net |-> HeadMissingSchema, fav |-> FavPng]}
    ELSE IF form.title = <<>> THEN GetEnvs ELSE HeadEnvs

\* the forms submitted to /adding and /editing
FormPlain ==
    [title |-> <<>>, url |-> UrlP, tags |-> TagsBA, note |-> <<>>,
     starred |-> FALSE, strip |-> FALSE]
FormStrip ==
    [title |-> TitleT, url |-> UrlPQ, tags |-> TagsA, note |-> <<"n">>,
     starred |-> TRUE, strip |-> TRUE]
FormNoScheme ==
    [title |-> TitleT, url |-> UrlNoScheme, tags |-> TagsA, note |-> <<>>,
     starred |-> FALSE, strip |-> FALSE]
FormNoUrl ==
    [title |-> TitleT, url |-> NoUrl, tags |-> TagsA, note |-> <<>>,
     starred |-> FALSE, strip |-> FALSE]

Forms == {FormPlain, FormStrip, FormNoScheme, FormNoUrl}

UserKeys == {"u1", "u2"}
UrlHashes == {md5_hexdigest(UrlP), md5_hexdigest(UrlPQ)}
ShareTags == {<<"a">>, <<"b">>}
SystemKeys == {"SYSTEMKEY", "wrong"}

(***************************************************************************)
(* Request handlers                                                        *)
(***************************************************************************)
\* the where clause without the userkey
ByHash_anyuser(bms, userkey, urlhash) ==
    {i \in DOMAIN bms : bms[i].url_hash = urlhash}

\* ids of the rows Bookmark.get(userkey, url_hash) / .where(...) select
ByHash(bms, userkey, urlhash) ==
    {i \in DOMAIN bms : bms[i].userkey = userkey /\ bms[i].url_hash = urlhash}

\* a get_or_create that overlooks deleted rows
ByUrl_visible(bms, userkey, url) ==
    {i \in DOMAIN bms : bms[i].userkey = userkey /\ bms[i].url = url
                         /\ bms[i].status = VISIBLE}

\* ids of the rows the get of get_or_create(url=url, userkey=userkey) selects
ByUrl(bms, userkey, url) ==
    {i \in DOMAIN bms : bms[i].userkey = userkey /\ bms[i].url = url}

\* addingbookmark after get_or_create inserted the row created: r is what
\* the rest of updatebookmark made of it
Created(userkey, created, r) ==
    /\ favicons' = r.favicons
    /\ calls' = r.calls
    /\ IF r.raised # "none"
       THEN /\ bookmarks' = Append(bookmarks, created)
            /\ response' = "500"
            /\ UNCHANGED all_tags
       ELSE /\ bookmarks' = Append(bookmarks, r.bookmark)
            /\ all_tags' = SetCache(all_tags, userkey,
                                    get_tags_for_user(bookmarks', userkey))
            /\ response' = "editbookmark"

\* editingbookmark after Bookmark.get loaded row id: r is what the rest of
\* updatebookmark made of it
Edited(userkey, id, r) ==
    /\ favicons' = r.favicons
    /\ calls' = r.calls
    /\ IF r.raised # "none"
       THEN /\ response' = "500"
            /\ UNCHANGED <<bookmarks, all_tags>>
       ELSE /\ bookmarks' = [bookmarks EXCEPT ![id] = r.bookmark]
            /\ all_tags' = SetCache(all_tags, userkey,
                                    get_tags_for_user(bookmarks', userkey))
            /\ response' = "editbookmark"

\* POST /<userkey>/adding: addingbookmark -> updatebookmark(userkey)
addingbookmark(userkey, form, net, fav) ==
    /\ UNCHANGED <<users, publictags, keys_issued, now, tagvars, procs, revoked, page>>
    /\ IF form.url = NoUrl
       THEN /\ response' = "No url provided"
            /\ calls' = <<>>
            /\ UNCHANGED <<bookmarks, all_tags, favicons>>
       ELSE IF ByUrl(bookmarks, userkey, form.url) # {}
       THEN /\ response' = "Existing bookmark, did not overwrite with new values"
            /\ calls' = <<>>
            /\ UNCHANGED <<bookmarks, all_tags, favicons>>
       ELSE /\ Len(bookmarks) < MaxBookmarks
            /\ Created(userkey, NewBookmark(userkey, form.url, now),
                       FillBookmark(NewBookmark(userkey, form.url, now), form,
                                    favicons, net, fav))

\* POST /<userkey>/<urlhash>/editing: editingbookmark -> updatebookmark(userkey, urlhash)
editingbookmark(userkey, urlhash, form, net, fav) ==
    /\ UNCHANGED <<users, publictags, keys_issued, now, tagvars, procs, revoked, page>>
    /\ IF form.url = NoUrl
       THEN \* updatebookmark returns None, the cache is refreshed, then
            \* bookmark.url_hash raises AttributeError
            /\ all_tags' = SetCache(all_tags, userkey, get_tags_for_user(bookmarks, userkey))
            /\ response' = "500"
            /\ calls' = <<>>
            /\ UNCHANGED <<bookmarks, favicons>>
       ELSE IF ByHash(bookmarks, userkey, urlhash) = {}
       THEN \* Bookmark.DoesNotExist
            /\ response' = "500"
            /\ calls' = <<>>
            /\ UNCHANGED <<bookmarks, all_tags, favicons>>
       ELSE \E id \in ByHash(bookmarks, userkey, urlhash) :
              Edited(userkey, id,
                     FillBookmark([bookmarks[id] EXCEPT !.modified_date = now],
                                  form, favicons, net, fav))

\* /<userkey>/<urlhash>/delete
deletingbookmark(userkey, urlhash) ==
    /\ bookmarks' = [i \in DOMAIN bookmarks |->
                       IF i \in ByHash(bookmarks, userkey, urlhash)
                       THEN [bookmarks[i] EXCEPT !.status = DELETED, !.deleted_date = now]
                       ELSE bookmarks[i]]
    /\ all_tags' = SetCache(all_tags, userkey, get_tags_for_user(bookmarks', userkey))
    /\ response' = "Bookmark deleted"
    /\ UNCHANGED <<users, publictags, favicons, keys_issued, now, tagvars, procs, revoked, page>>
    /\ calls' = <<>>

\* /<userkey>/<urlhash>/undelete
undeletebookmark(userkey, urlhash) ==
    /\ bookmarks' = [i \in DOMAIN bookmarks |->
                       IF i \in ByHash(bookmarks, userkey, urlhash)
                       THEN [bookmarks[i] EXCEPT !.status = VISIBLE]
                       ELSE bookmarks[i]]
    /\ all_tags' = SetCache(all_tags, userkey, get_tags_for_user(bookmarks', userkey))
    /\ response' = "Bookmark restored"
    /\ UNCHANGED <<users, publictags, favicons, keys_issued, now, tagvars, procs, revoked, page>>
    /\ calls' = <<>>

\* a lookup by the key about to be generated instead of by the tag
FindPublicTag_bykey(pts, userkey, tag) ==
    {r \in pts : r.userkey = userkey /\ r.tagkey = keys_issued + 1}

\* the rows PublicTag.get(PublicTag.userkey == userkey, PublicTag.tag == tag) selects
FindPublicTag(pts, userkey, tag) == {r \in pts : r.userkey = userkey /\ r.tag = tag}

\* id of the next inserted PublicTag row (INTEGER PRIMARY KEY: max + 1)
NextPublicTagId ==
    IF publictags = {} THEN 1
    ELSE 1 + CHOOSE m \in {r.id : r \in publictags} : \A r \in publictags : r.id <= m

\* a generator that hands a revoked key out again
generate_key_reuse ==
    IF revoked # {} THEN (CHOOSE r \in revoked : TRUE).tagkey ELSE keys_issued + 1

\* PublicTag.generate_key draws os.urandom(16): the keys_issued+1'th key, which
\* differs from every key drawn before (a collision of two 128-bit draws is
\* not modelled)
generate_key == keys_issued + 1

\* addpublictag without the User.get
addpublictag_nouser(userkey, tag) ==
    /\ UNCHANGED <<users, bookmarks, all_tags, favicons, now, tagvars, procs, revoked, page>>
    /\ calls' = <<>>
    /\ IF FindPublicTag(publictags, userkey, tag) # {}
       THEN /\ response' = "Public link already existed"
            /\ UNCHANGED <<publictags, keys_issued>>
       ELSE /\ keys_issued < MaxTagKeys
            /\ keys_issued' = keys_issued + 1
            /\ publictags' = publictags \cup
                   {[id |-> NextPublicTagId, tagkey |-> generate_key,
                     userkey |-> userkey, tag |-> tag, created_date |-> now]}
            /\ response' = "Public link to this tag created"

\* /<userkey>/<tag>/makepublic
addpublictag(userkey, tag) ==
    /\ UNCHANGED <<users, bookmarks, all_tags, favicons, now, tagvars, procs, revoked, page>>
    /\ calls' = <<>>
    /\ IF userkey \notin users
       THEN /\ response' = "404"
            /\ UNCHANGED <<publictags, keys_issued>>
       ELSE IF FindPublicTag(publictags, userkey, tag) # {}
       THEN /\ response' = "Public link already existed"
            /\ UNCHANGED <<publictags, keys_issued>>
       ELSE /\ keys_issued < MaxTagKeys
            /\ keys_issued' = keys_issued + 1
            /\ publictags' = publictags \cup
                   {[id |-> NextPublicTagId, tagkey |-> generate_key,
                     userkey |-> userkey, tag |-> tag, created_date |-> now]}
            /\ response' = "Public link to this tag created"

\* a delete query whose where clause leaves the tagkey out
removepublictag_anykey(userkey, tag, tagkey) ==
    /\ publictags' = {r \in publictags : ~(r.userkey = userkey /\ r.tag = tag)}
    /\ revoked' = revoked \cup (publictags \ publictags')
    /\ response' = "Public link deleted"
    /\ UNCHANGED <<users, bookmarks, all_tags, favicons, keys_issued, now, tagvars, procs, page>>
    /\ calls' = <<>>

\* a delete by tag and tagkey, without the userkey
removepublictag_anyuser(userkey, tag, tagkey) ==
    /\ publictags' = {r \in publictags : ~(r.tag = tag /\ r.tagkey = tagkey)}
    /\ revoked' = revoked \cup (publictags \ publictags')
    /\ response' = "Public link deleted"
    /\ UNCHANGED <<users, bookmarks, all_tags, favicons, keys_issued, now, tagvars, procs, page>>
    /\ calls' = <<>>

\* /<userkey>/<tag>/removepublic/<tagkey>
removepublictag(userkey, tag, tagkey) ==
    /\ publictags' = {r \in publictags :
                        ~(r.userkey = userkey /\ r.tag = tag /\ r.tagkey = tagkey)}
    /\ revoked' = revoked \cup (publictags \ publictags')
    /\ response' = "Public link deleted"
    /\ UNCHANGED <<users, bookmarks, all_tags, favicons, keys_issued, now, tagvars, procs, page>>
    /\ calls' = <<>>

\* /<systemkey>/adduser.  User.generate_key draws os.urandom(24): a key no
\* user has yet
adduser(systemkey) ==
    /\ UNCHANGED <<bookmarks, publictags, favicons, keys_issued, now, tagvars, procs, revoked, page>>
    /\ calls' = <<>>
    /\ IF systemkey = "SYSTEMKEY"
       THEN \E key \in UserKeys \ users :
              /\ users' = users \cup {key}
              /\ all_tags' = SetCache(all_tags, key, <<>>)
              /\ response' = "302"
       ELSE /\ response' = "404"
            /\ UNCHANGED <<users, all_tags>>

\* time passes between requests
Tick ==
    /\ now < MaxNow
    /\ now' = now + 1
    /\ UNCHANGED <<users, bookmarks, publictags, all_tags, favicons, keys_issued,
                   response, tagvars, calls, procs, revoked, page>>

(***************************************************************************)
(* The application: empty tables, empty cache, requests one at a time      *)
(***************************************************************************)
DbInit ==
    /\ users = {}
    /\ bookmarks = <<>>
    /\ publictags = {}
    /\ all_tags = <<>>
    /\ favicons = {}
    /\ keys_issued = 0
    /\ now = 1
    /\ response = "none"
    /\ revoked = {}
    /\ page = <<>>
    /\ calls = <<>>
    /\ procs = <<>>

TagIdle ==
    /\ newtags = <<>>
    /\ tags = <<>>
    /\ tags_res = <<>>
    /\ tags_done = FALSE

Init == DbInit /\ TagIdle

Adding == \E u \in UserKeys, f \in Forms :
            \E env \in Envs(f) : addingbookmark(u, f, env.net, env.fav)

Editing == \E u \in UserKeys, h \in UrlHashes, f \in Forms :
             \E env \in Envs(f) : editingbookmark(u, h, f, env.net, env.fav)

Deleting == \E u \in UserKeys, h \in UrlHashes : deletingbookmark(u, h)

Undelete == \E u \in UserKeys, h \in UrlHashes : undeletebookmark(u, h)

AddPublicTag == \E u \in UserKeys, t \in ShareTags : addpublictag(u, t)

RemovePublicTag ==
    \E u \in UserKeys, t \in ShareTags, k \in 1..MaxTagKeys : removepublictag(u, t, k)

AddUser == \E k \in SystemKeys : adduser(k)

Next ==
    \/ Adding
    \/ Editing
    \/ Deleting
    \/ Undelete

Spec == Init /\ [][Next]_vars

(***************************************************************************)
(* The public tag shares on their own: users are added, shares are made    *)
(* and removed while time passes; the Bookmark table stays empty.          *)
(***************************************************************************)
ShareNext ==
    \/ AddUser
    \/ AddPublicTag
    \/ RemovePublicTag
    \/ Tick

SpecShare == Init /\ [][ShareNext]_vars

(***************************************************************************)
(* Specification of the tag canonicaliser on its own: every string up to   *)
(* MaxTagLen over TagChars, and the example of the documentation.          *)
(***************************************************************************)
TagChars == {" ", ",", "a", "b"}

RECURSIVE StringsUpTo(_)
StringsUpTo(n) ==
    IF n = 0 THEN {<<>>}
    ELSE LET shorter == StringsUpTo(n - 1)
         IN  shorter \cup {Append(s, c) : s \in {t \in shorter : Len(t) = n - 1}, c \in TagChars}

ExampleTags == <<"b", ",", " ", "a", ",", " ", "a", ",", " ", ",", " ", "b">>
CaseTags == <<"b", ",", "B", ",", "a">>

TagInputs == StringsUpTo(MaxTagLen) \cup {ExampleTags, CaseTags}

TagInit ==
    /\ DbInit
    /\ newtags \in TagInputs
    /\ tags = <<>>
    /\ tags_res = <<>>
    /\ tags_done = FALSE

\* bookmark.set_tags(newtags)
TagSetTags ==
    /\ ~tags_done
    /\ tags_res' = clean_tags(Split(newtags))
    /\ tags' = set_tags(newtags)
    /\ tags_done' = TRUE
    /\ UNCHANGED <<newtags, dbvars>>

\* the edit form is filled from bookmark.tags and submitted again
TagResubmit ==
    /\ tags_done
    /\ newtags # tags
    /\ newtags' = tags
    /\ tags_done' = FALSE
    /\ UNCHANGED <<tags, tags_res, dbvars>>

TagNext == TagSetTags \/ TagResubmit

SpecTags == TagInit /\ [][TagNext]_vars

(***************************************************************************)
(* Properties                                                              *)
(***************************************************************************)
ExistingBookmark == "Existing bookmark, did not overwrite with new values"

RowOf(bms, u, url) == \E i \in DOMAIN bms : bms[i].userkey = u /\ bms[i].url = url

\* C1: no two Bookmark rows have the same (userkey, url_hash) pair.
C1_UniqueIdentity ==
    \A i, j \in DOMAIN bookmarks :
        (bookmarks[i].userkey = bookmarks[j].userkey
         /\ bookmarks[i].url_hash = bookmarks[j].url_hash) => i = j

\* C2: an add request for a (userkey, url) that already has a row with that
\* url, visible or deleted, answers the existing-bookmark redirect and leaves
\* the Bookmark table as it was (no new row, no field changed).
C2_ExistingBookmarkConflict ==
    [][\A u \in UserKeys, f \in Forms : \A env \in Envs(f) :
         (/\ f.url # NoUrl
          /\ RowOf(bookmarks, u, f.url)
          /\ addingbookmark(u, f, env.net, env.fav))
         => (response' = ExistingBookmark /\ bookmarks' = bookmarks)]_vars

\* an add request was answered with the redirect while the only row, the one
\* it collided with, is deleted
C2_Witness ==
    /\ response = ExistingBookmark
    /\ Len(bookmarks) = 1
    /\ bookmarks[1].status = DELETED

\* C3: a delete request changes only status and deleted_date of the rows it
\* selects, and an undelete request on a deleted row leaves it VISIBLE with
\* deleted_date None and every other field as it was.
C3_DeleteThenRestore ==
    [][\A u \in UserKeys, h \in UrlHashes :
         /\ deletingbookmark(u, h) =>
              \A i \in DOMAIN bookmarks :
                  bookmarks'[i] =
                      IF bookmarks[i].userkey = u /\ bookmarks[i].url_hash = h
                      THEN [bookmarks[i] EXCEPT !.status = DELETED,
                                                !.deleted_date = bookmarks'[i].deleted_date]
                      ELSE bookmarks[i]
         /\ undeletebookmark(u, h) =>
              \A i \in DOMAIN bookmarks :
                  (bookmarks[i].userkey = u /\ bookmarks[i].url_hash = h
                   /\ bookmarks[i].status = DELETED)
                  => bookmarks'[i] = [bookmarks[i] EXCEPT !.status = VISIBLE,
                                                          !.deleted_date = NullDate]]_vars

\* C4: the url_hash of every row is the md5 digest of the url of that row.
C4_HashOfCurrentUrl ==
    \A i \in DOMAIN bookmarks : bookmarks[i].url_hash = md5_hexdigest(bookmarks[i].url)

\* C5: the tags column of every row is '' or a comma-separated list whose
\* pieces are non-empty and strictly ascending (so sorted and without
\* duplicates).
CanonicalTagString(t) ==
    \/ t = <<>>
    \/ LET l == Split(t)
       IN  /\ \A k \in 1..Len(l) : l[k] # <<>>
           /\ \A k \in 1..(Len(l) - 1) : StrLess(l[k], l[k + 1])

C5_TagsCanonical ==
    \A i \in DOMAIN bookmarks : CanonicalTagString(bookmarks[i].tags)

\* a row stores "a,b" (submitted as "b, a") and another row stores no tag
C5_Witness ==
    /\ \E i \in DOMAIN bookmarks : bookmarks[i].tags = <<"a", ",", "b">>
    /\ \E i \in DOMAIN bookmarks : bookmarks[i].tags = <<>>

\* C6: cleaning the comma-join of a cleaned list gives the same list, and a
\* cleaned list has no empty element and no element twice.
C6_CleanTagsIdempotent ==
    tags_done =>
        /\ clean_tags(Split(Join(tags_res))) = tags_res
        /\ \A k \in 1..Len(tags_res) : tags_res[k] # <<>>
        /\ \A k, m \in 1..Len(tags_res) : tags_res[k] = tags_res[m] => k = m

\* set_tags ran on an input with a repeated tag, an empty piece and a
\* space, so that the join of the result differs from the input
C6_Witness ==
    /\ tags_done
    /\ newtags = <<" ", "a", ",", ",", "a">>
    /\ tags_res = << <<"a">> >>
    /\ tags = <<"a">>

\* C7: clean_tags of the split input is the strictly ascending sequence of
\* the distinct non-empty stripped pieces; "b, a, a, , b" gives ["a", "b"].
C7_CleanTagsResult ==
    tags_done =>
        LET pieces == {Strip(x) : x \in SeqElems(Split(newtags))} \ {<<>>}
        IN  /\ SeqElems(tags_res) = pieces
            /\ Len(tags_res) = Cardinality(pieces)
            /\ \A k \in 1..(Len(tags_res) - 1) : StrLess(tags_res[k], tags_res[k + 1])
            /\ newtags = ExampleTags => tags_res = << <<"a">>, <<"b">> >>
            /\ newtags = CaseTags => tags_res = << <<"B">>, <<"a">>, <<"b">> >>

\* set_tags ran on the documented example
C7_Witness ==
    /\ tags_done
    /\ newtags = ExampleTags
    /\ tags_res = << <<"a">>, <<"b">> >>

\* the row an add or edit request with this form saved carries this status and title
Saved(bms, u, f, status, title) ==
    \E i \in DOMAIN bms :
        /\ bms[i].userkey = u
        /\ bms[i].url = (IF f.strip THEN strip_url_params(f.url) ELSE f.url)
        /\ bms[i].http_status = status
        /\ bms[i].title = title

\* an add or edit request of user u with form f whose metadata request
\* raised a network error, and that found no conflict / found its row
FetchFailed(u, f, env) ==
    /\ f.url # NoUrl
    /\ env.net.exc # "none"
    /\ \/ ~RowOf(bookmarks, u, f.url) /\ addingbookmark(u, f, env.net, env.fav)
       \/ \E h \in UrlHashes :
              /\ \E i \in DOMAIN bookmarks :
                     bookmarks[i].userkey = u /\ bookmarks[i].url_hash = h
              /\ editingbookmark(u, h, f, env.net, env.fav)

\* C8: when the metadata request of an add or edit request raises a network
\* error, the request is not answered with an error and the bookmark is
\* saved with http_status 0 (HTTP_CONNECTIONERROR) and an empty title.
C8_FetchFailureSentinel ==
    [][\A u \in UserKeys, f \in Forms : \A env \in Envs(f) :
         FetchFailed(u, f, env)
         => (response' = "editbookmark"
             /\ Saved(bookmarks', u, f, HTTP_CONNECTIONERROR, <<>>))]_vars

\* C9: no request removes a row or changes the owner of a row; the status
\* of a row changes only from VISIBLE to DELETED in a delete request for its
\* (userkey, url_hash) and from DELETED to VISIBLE in an undelete request
\* for it; add and edit requests change no status.
C9_StatusTransitions ==
    [][/\ Len(bookmarks') >= Len(bookmarks)
       /\ \A i \in DOMAIN bookmarks :
            /\ bookmarks'[i].userkey = bookmarks[i].userkey
            /\ bookmarks'[i].status # bookmarks[i].status =>
                 \/ /\ bookmarks[i].status = VISIBLE
                    /\ bookmarks'[i].status = DELETED
                    /\ deletingbookmark(bookmarks[i].userkey, bookmarks[i].url_hash)
                 \/ /\ bookmarks[i].status = DELETED
                    /\ bookmarks'[i].status = VISIBLE
                    /\ undeletebookmark(bookmarks[i].userkey, bookmarks[i].url_hash)
       /\ (\E i \in DOMAIN bookmarks : bookmarks'[i].status # bookmarks[i].status)
          => ~\E u \in UserKeys, f \in Forms : \E env \in Envs(f) :
                 \/ addingbookmark(u, f, env.net, env.fav)
                 \/ \E h \in UrlHashes : editingbookmark(u, h, f, env.net, env.fav)]_vars

\* a row went to DELETED and back, was edited since, and another row is deleted
C9_Witness ==
    \E i, j \in DOMAIN bookmarks :
        /\ bookmarks[i].status = VISIBLE
        /\ bookmarks[i].deleted_date # NullDate
        /\ bookmarks[i].modified_date # NullDate
        /\ bookmarks[j].status = DELETED

\* C10: the PublicTag table holds at most one row per (userkey, tag).
C10_OneShare ==
    \A r1, r2 \in publictags :
        (r1.userkey = r2.userkey /\ r1.tag = r2.tag) => r1 = r2

\* a second makepublic request for a shared tag was answered, after another
\* share had been removed
C10_Witness ==
    /\ response = "Public link already existed"
    /\ publictags # {}
    /\ keys_issued > Cardinality(publictags)

(***************************************************************************)
(* The public page of a share: /pub/<tagkey>                               *)
(***************************************************************************)
\* Bookmark.tags.contains(tag): tags LIKE '%tag%', tag occurs in the column
\* as a substring
Contains(s, sub) ==
    \E i \in 1..(Len(s) - Len(sub) + 1) : SubSeq(s, i, i + Len(sub) - 1) = sub

\* .order_by(Bookmark.created_date.desc()): the orders of the rows ids that
\* put a later created_date first; rows of one date come in any order
OrderByCreatedDesc(bms, ids) ==
    {q \in [1..Cardinality(ids) -> ids] :
        /\ \A i, j \in DOMAIN q : i # j => q[i] # q[j]
        /\ \A i, j \in DOMAIN q :
              i < j => bms[q[i]].created_date >= bms[q[j]].created_date}

\* the where clause of get_publictag for the share this_tag
PublicTagRows(bms, this_tag) ==
    {i \in DOMAIN bms : /\ bms[i].userkey = this_tag.userkey
                        /\ Contains(bms[i].tags, this_tag.tag)
                        /\ bms[i].status = VISIBLE}

\* /pub/<tagkey>: get_publictag, PublicTag.DoesNotExist answered by abort(404)
publictag_page(tagkey) ==
    /\ UNCHANGED <<users, bookmarks, publictags, all_tags, favicons, keys_issued,
                   now, tagvars, procs, revoked>>
    /\ calls' = <<>>
    /\ IF {r \in publictags : r.tagkey = tagkey} = {}
       THEN /\ response' = "404"
            /\ page' = <<>>
       ELSE \E this_tag \in {r \in publictags : r.tagkey = tagkey} :
            \E q \in OrderByCreatedDesc(bookmarks, PublicTagRows(bookmarks, this_tag)) :
              /\ response' = "publicbookmarks.html"
              /\ page' = [i \in DOMAIN q |-> bookmarks[q[i]]]

\* the bookmarks that are shared: one tagged "ab", one tagged "a" and "b"
TagsAB == <<"a", "b">>
FormAB ==
    [title |-> TitleT, url |-> UrlP, tags |-> TagsAB, note |-> <<>>,
     starred |-> FALSE, strip |-> FALSE]
PubForms == {FormAB, FormStrip}
PubUsers == {"u1"}

PubAdding ==
    \E u \in PubUsers, f \in PubForms :
        addingbookmark(u, f, HeadOk, FavPng)

PubDeleting == \E u \in PubUsers, h \in UrlHashes : deletingbookmark(u, h)

PubAddUser == \E k \in {"SYSTEMKEY"} : adduser(k)

PubAddPublicTag == \E u \in PubUsers, t \in ShareTags : addpublictag(u, t)

PubRemovePublicTag ==
    \E u \in PubUsers, t \in ShareTags, k \in 1..MaxTagKeys : removepublictag(u, t, k)

PublicTagPage == \E k \in 1..MaxTagKeys : publictag_page(k)

PubNext ==
    \/ PubAddUser
    \/ PubAdding
    \/ PubDeleting
    \/ PubAddPublicTag
    \/ PubRemovePublicTag
    \/ PublicTagPage
    \/ Tick

SpecPub == Init /\ [][PubNext]_vars

(***************************************************************************)
(* Shares                                                                  *)
(***************************************************************************)
\* C11: a makepublic call for a pair that has a share leaves the PublicTag
\* table, and so the active tagkey, as it is; a makepublic call that makes a
\* share for a pair whose earlier share was removed gives it a tagkey that
\* differs from the key of every removed share of the pair
C11_ShareKeyStable ==
    [][\A u \in UserKeys, t \in ShareTags :
         addpublictag(u, t) =>
            /\ FindPublicTag(publictags, u, t) # {} => publictags' = publictags
            /\ \A r \in FindPublicTag(publictags', u, t) \ publictags :
                 \A old \in FindPublicTag(revoked, u, t) : r.tagkey # old.tagkey]_vars

\* a second makepublic call has answered for a pair that was shared, removed
\* and shared again
C11_Witness ==
    /\ response = "Public link already existed"
    /\ \E r \in publictags : \E old \in revoked :
          old.userkey = r.userkey /\ old.tag = r.tag /\ old.tagkey # r.tagkey

\* C13: a makepublic call for a userkey that has no User row answers 404 and
\* leaves the PublicTag table as it is
C13_ShareUserNotFound ==
    [][\A u \in UserKeys, t \in ShareTags :
         (u \notin users /\ addpublictag(u, t)) =>
            response' = "404" /\ publictags' = publictags]_vars

\* a 404 was answered while a user exists, another does not, and no share of
\* the missing user is stored
C13_Witness ==
    /\ response = "404"
    /\ users # {}
    /\ \E u \in UserKeys \ users : \A r \in publictags : r.userkey # u

C12_ResolveShare ==
    [][\A k \in 1..MaxTagKeys :
         publictag_page(k) =>
            IF \A r \in publictags : r.tagkey # k
            THEN response' = "404"
            ELSE /\ response' # "404"
                 /\ \E r \in publictags :
                      /\ r.tagkey = k
                      /\ {page'[i] : i \in DOMAIN page'} =
                           {bookmarks[i] : i \in
                              {j \in DOMAIN bookmarks :
                                 /\ bookmarks[j].userkey = r.userkey
                                 /\ bookmarks[j].status = VISIBLE
                                 /\ r.tag \in SeqElems(tags_list(bookmarks[j].tags))}}
                 /\ \A i, j \in DOMAIN page' :
                      i < j => page'[i].created_date >= page'[j].created_date]_vars

(***************************************************************************)
(* Requests without a url, with a url that is none                         *)
(***************************************************************************)
\* C15: an add or edit request that submits no url is answered with the
\* 'No url provided' outcome and leaves the Bookmark table as it is
C15_MissingUrl ==
    [][\A u \in UserKeys, f \in Forms : \A env \in Envs(f) :
         f.url = NoUrl =>
            /\ addingbookmark(u, f, env.net, env.fav) =>
                  (response' = "No url provided" /\ bookmarks' = bookmarks)
            /\ \A h \in UrlHashes :
                  editingbookmark(u, h, f, env.net, env.fav) =>
                     (response' = "No url provided" /\ bookmarks' = bookmarks)]_vars

\* a url with a scheme and a host, what AnyUrl accepts
WellFormedUrl(url) == urlparse(url).scheme # <<>> /\ urlparse(url).netloc # <<>>

\* C16: an add request whose url is not well-formed is answered with an error
\* and stores no row with that url
C16_MalformedUrl ==
    [][\A u \in UserKeys, f \in Forms : \A env \in Envs(f) :
         (/\ f.url # NoUrl
          /\ ~WellFormedUrl(f.url)
          /\ ~RowOf(bookmarks, u, f.url)
          /\ addingbookmark(u, f, env.net, env.fav))
         => (response' # "editbookmark" /\ ~RowOf(bookmarks', u, f.url))]_vars

(***************************************************************************)
(* The tag cache                                                           *)
(***************************************************************************)
\* the tags on the VISIBLE bookmarks of user u
VisibleTags(u) ==
    UNION {SeqElems(tags_list(bookmarks[i].tags)) :
             i \in {j \in DOMAIN bookmarks : /\ bookmarks[j].userkey = u
                                             /\ bookmarks[j].status = VISIBLE}}

\* C17: between requests the cached tag list of every user is the strictly
\* ascending list of the non-empty tags on the user's VISIBLE bookmarks
C17_CacheFresh ==
    \A u \in UserKeys :
        /\ SeqElems(get_cached_tags(all_tags, u)) = VisibleTags(u) \ {<<>>}
        /\ \A i, j \in DOMAIN get_cached_tags(all_tags, u) :
              i < j => StrLess(get_cached_tags(all_tags, u)[i],
                               get_cached_tags(all_tags, u)[j])

\* a delete request has emptied the cache of a user whose deleted bookmark has
\* tags, while another user's cache still lists that user's tags
C17_Witness ==
    /\ response = "Bookmark deleted"
    /\ \E u \in DOMAIN all_tags :
          /\ all_tags[u] = <<>>
          /\ \E i \in DOMAIN bookmarks :
                bookmarks[i].userkey = u /\ bookmarks[i].tags # <<>>
    /\ \E v \in DOMAIN all_tags : Len(all_tags[v]) = 2

(***************************************************************************)
(* Favicons: one user adds and edits bookmarks of the domain x while the   *)
(* favicon provider and the disk answer in every way                       *)
(***************************************************************************)
FavJpeg ==
    [first |-> Provider("none", 200, "n", "image/jpeg"),
     second |-> Provider("none", 200, "n", "image/jpeg"), io |-> "ok"]
\* no android_chrome icon, the desktop icon is an .ico
FavIco ==
    [first |-> Provider("none", 404, "n", "text/html"),
     second |-> Provider("none", 200, "n", "image/x-icon"), io |-> "ok"]
\* an answer without a Content-Type header
FavNoType ==
    [first |-> Provider("none", 200, "n", "absent"),
     second |-> Provider("none", 200, "n", "absent"), io |-> "ok"]
\* Content-Length: 0
FavEmpty ==
    [first |-> Provider("none", 200, "0", "image/png"),
     second |-> Provider("none", 200, "0", "image/png"), io |-> "ok"]
\* the provider cannot be reached
FavDown ==
    [first |-> Provider("ConnectionError", 0, "n", "absent"),
     second |-> Provider("ConnectionError", 0, "n", "absent"), io |-> "ok"]
\* the favicons directory cannot be written / the disk fills up while writing
FavOpenFails == [FavPng EXCEPT !.io = "open"]
FavCopyFails == [FavPng EXCEPT !.io = "copy"]

FavAnswers ==
    {FavPng, FavJpeg, FavIco, FavNoType, FavEmpty, FavDown, FavOpenFails, FavCopyFails}

FavForms == {FormPlain, FormStrip}
FavUsers == {"u1"}

\* the page itself answers 200 to the GET (no title) or the HEAD (title)
FavNet(form) == IF form.title = <<>> THEN GetOk ELSE HeadOk

FavAdding ==
    \E u \in FavUsers, f \in FavForms, fav \in FavAnswers :
        addingbookmark(u, f, FavNet(f), fav)

FavEditing ==
    \E u \in FavUsers, h \in UrlHashes, f \in FavForms, fav \in FavAnswers :
        editingbookmark(u, h, f, FavNet(f), fav)

FavNext ==
    \/ FavAdding
    \/ FavEditing

SpecFav == Init /\ [][FavNext]_vars

\* the provider or the disk makes the download of an icon fail: a request
\* that raises, an answer without Content-Type to choose the extension from,
\* a file that cannot be opened or written
FaviconFails(fav) ==
    \/ fav.first.exc # "none"
    \/ fav.first.status_code = 404 /\ fav.second.exc # "none"
    \/ /\ (IF fav.first.status_code = 404 THEN fav.second ELSE fav.first).content_length # "0"
       /\ \/ (IF fav.first.status_code = 404 THEN fav.second
              ELSE fav.first).content_type = "absent"
          \/ fav.io # "ok"

\* the domain whose icon a request with form f asks for
FormDomain(f) == urlparse(f.url).netloc

\* an icon file of the domain is in the favicons directory
IconStored(domain) ==
    \E ext \in {<<".", "p", "n", "g">>, <<".", "i", "c", "o">>, <<".", "j", "p", "g">>} :
        domain \o ext \in favicons

\* a row of user u holds the fields that form f submitted
SavedFields(bms, u, f) ==
    \E i \in DOMAIN bms :
        /\ bms[i].userkey = u
        /\ bms[i].url = (IF f.strip THEN strip_url_params(f.url) ELSE f.url)
        /\ bms[i].tags = set_tags(f.tags)
        /\ bms[i].note = f.note
        /\ bms[i].starred = f.starred
        /\ f.title # <<>> => bms[i].title = f.title

\* C18: an add or edit request during which the download of the icon fails is
\* still answered as a success and the bookmark is saved with the submitted
\* fields
C18_FaviconFailureAbsorbed ==
    [][\A u \in FavUsers, f \in FavForms, fav \in FavAnswers :
         (/\ FaviconFails(fav)
          /\ ~IconStored(FormDomain(f))
          /\ \/ ~RowOf(bookmarks, u, f.url) /\ addingbookmark(u, f, FavNet(f), fav)
             \/ \E h \in UrlHashes :
                   /\ ByHash(bookmarks, u, h) # {}
                   /\ editingbookmark(u, h, f, FavNet(f), fav))
         => (response' = "editbookmark" /\ SavedFields(bookmarks', u, f))]_vars

\* C19: once an icon file of a domain is stored, an add request for a
\* bookmark of that domain downloads nothing (the favicons directory stays as
\* it is) and records a stored file of the domain as the bookmark's favicon
C19_FaviconReuse ==
    [][\A u \in FavUsers, f \in FavForms, fav \in FavAnswers :
         (/\ IconStored(FormDomain(f))
          /\ ~RowOf(bookmarks, u, f.url)
          /\ addingbookmark(u, f, FavNet(f), fav))
         => /\ favicons' = favicons
            /\ bookmarks'[Len(bookmarks')].favicon \in favicons]_vars

\* C20: the row an add request stores has the submitted url when strip was
\* not requested and, when it was, a url whose query is empty and whose
\* scheme, host, path, params and fragment are those of the submitted url
C20_StoredUrl ==
    [][\A u \in FavUsers, f \in FavForms, fav \in FavAnswers :
         (/\ ~RowOf(bookmarks, u, f.url)
          /\ addingbookmark(u, f, FavNet(f), fav))
         => IF f.strip
            THEN urlparse(bookmarks'[Len(bookmarks')].url) =
                    [urlparse(f.url) EXCEPT !.query = <<>>]
            ELSE bookmarks'[Len(bookmarks')].url = f.url]_vars

(***************************************************************************)
(* The metadata requests: one user adds and edits bookmarks while the page *)
(* answers the GET or the HEAD request with every kind of outcome          *)
(***************************************************************************)
GetAccepted == GetAnswer("none", 202, Null)
GetNotFound == GetAnswer("none", 404, PageTitle)
HeadAccepted == HeadAnswer("none", 202)
HeadNotFound == HeadAnswer("none", 404)
HeadConnectTimeout == HeadAnswer("ConnectTimeout", 0)

FetchNets(form) ==
    IF form.title = <<>> THEN {GetOk, GetAccepted, GetNotFound, GetRaises}
    ELSE {HeadOk, HeadAccepted, HeadNotFound, HeadConnectionError, HeadConnectTimeout}

FetchNext ==
    \/ \E u \in FavUsers, f \in FavForms :
       \E net \in FetchNets(f), fav \in {FavPng, FavIco} :
           addingbookmark(u, f, net, fav)
    \/ \E u \in FavUsers, h \in UrlHashes, f \in FavForms :
       \E net \in FetchNets(f), fav \in {FavPng, FavIco} :
           editingbookmark(u, h, f, net, fav)

SpecFetch == Init /\ [][FetchNext]_vars

(***************************************************************************)
(* The requests one add or edit request makes                              *)
(***************************************************************************)
\* an add request of user u with form f that finds no row with the url, or
\* an edit request that finds its row
UpdateRuns(u, f, net, fav) ==
    /\ f.url # NoUrl
    /\ \/ ~RowOf(bookmarks, u, f.url) /\ addingbookmark(u, f, net, fav)
       \/ \E h \in UrlHashes :
              /\ ByHash(bookmarks, u, h) # {}
              /\ editingbookmark(u, h, f, net, fav)

\* the requests to the bookmarked page among the calls of a request
PageCalls(cs) == SelectSeq(cs, LAMBDA c : c \in {"GET", "HEAD"})

\* C21: an add or edit request without a title makes the GET request and no
\* HEAD request; one with a title makes the HEAD request and no GET request,
\* and the row of the bookmark is stored with the submitted title whatever
\* the HEAD request ended in.
C21_FetchDispatch ==
    [][\A u \in UserKeys, f \in Forms : \A env \in Envs(f) :
         UpdateRuns(u, f, env.net, env.fav)
         => IF f.title = <<>>
            THEN PageCalls(calls') = <<"GET">>
            ELSE /\ PageCalls(calls') = <<"HEAD">>
                 /\ \E i \in DOMAIN bookmarks' :
                        /\ bookmarks'[i].userkey = u
                        /\ bookmarks'[i].title = f.title]_vars

\* the part of C21 about which request is made
C21_DispatchOnly ==
    [][\A u \in UserKeys, f \in Forms : \A env \in Envs(f) :
         UpdateRuns(u, f, env.net, env.fav)
         => PageCalls(calls') = (IF f.title = <<>> THEN <<"GET">> ELSE <<"HEAD">>)]_vars

\* the favicon part of the calls of a request: the look-ups in the favicons
\* directory and the requests to the provider
FaviconCalls(cs) == SelectSeq(cs, LAMBDA c : c \notin {"GET", "HEAD"})

\* P holds of the row that an add request of user u with form f inserted, or
\* that an edit request loaded and wrote, in this step
UpdateStores(u, f, net, fav, P(_)) ==
    /\ (f.url # NoUrl /\ ~RowOf(bookmarks, u, f.url) /\ addingbookmark(u, f, net, fav))
       => P(bookmarks'[Len(bookmarks')])
    /\ \A h \in UrlHashes :
         (f.url # NoUrl /\ ByHash(bookmarks, u, h) # {} /\ editingbookmark(u, h, f, net, fav))
         => \E id \in ByHash(bookmarks, u, h) :
                /\ bookmarks' = [bookmarks EXCEPT ![id] = bookmarks'[id]]
                /\ P(bookmarks'[id])

\* the row i is the one this step inserted or wrote: every other row is as
\* it was
Written(i) ==
    /\ i \in DOMAIN bookmarks'
    /\ \A j \in DOMAIN bookmarks' \ {i} : j \in DOMAIN bookmarks /\ bookmarks'[j] = bookmarks[j]
    /\ Len(bookmarks') > Len(bookmarks) => i = Len(bookmarks')

\* C22: an add or edit request that made its GET or HEAD request and was
\* served looked for a favicon (in the favicons directory or at the provider)
\* exactly when the http_status that request produced, the one of the row it
\* stored, is 200 or 202.
C22_FaviconGate ==
    [][(PageCalls(calls') # <<>> /\ response' = "editbookmark")
       => \E i \in DOMAIN bookmarks' :
              /\ Written(i)
              /\ (bookmarks'[i].http_status \in {HTTP_OK, HTTP_ACCEPTED})
                 <=> (FaviconCalls(calls') # <<>>)]_vars

\* a request whose page answered 404 to the GET was served without any
\* favicon call
C22_Witness ==
    /\ response = "editbookmark"
    /\ calls = <<"GET">>
    /\ \E i \in DOMAIN bookmarks : bookmarks[i].http_status = HTTP_NOTFOUND

\* C23: the favicon calls of a request are, in this order, the look-up of the
\* .png file, the look-up of the .ico file, the android_chrome request and the
\* desktop request: the look-ups stop at the first file found and then no
\* request is made, and the desktop request is made exactly when the
\* android_chrome request answered 404.
C23_FaviconOrder ==
    [][\A u \in FavUsers, f \in FavForms, fav \in FavAnswers :
         UpdateRuns(u, f, FavNet(f), fav)
         => FaviconCalls(calls') =
              IF FormDomain(f) \o <<".", "p", "n", "g">> \in favicons
              THEN <<"isfile .png">>
              ELSE IF FormDomain(f) \o <<".", "i", "c", "o">> \in favicons
              THEN <<"isfile .png", "isfile .ico">>
              ELSE IF fav.first.exc = "none" /\ fav.first.status_code = 404
              THEN <<"isfile .png", "isfile .ico", "GET android_chrome", "GET desktop">>
              ELSE <<"isfile .png", "isfile .ico", "GET android_chrome">>]_vars

\* the desktop request was made after both look-ups found nothing and the
\* android_chrome request answered 404
C23_Witness ==
    /\ FaviconCalls(calls) = <<"isfile .png", "isfile .ico", "GET android_chrome", "GET desktop">>
    /\ <<"x", ".", "i", "c", "o">> \in favicons

\* the .ico file was found after the .png look-up failed: no request made
C23_WitnessLocal ==
    /\ FaviconCalls(calls) = <<"isfile .png", "isfile .ico">>
    /\ response = "editbookmark"

\* C24: when the HEAD request of an add or edit request fails at the network
\* level (no connection, or a timeout) the request is served, and the row is
\* stored with http_status 0, not with a status code of HTTP.
C24_HeadFailureSentinel ==
    [][\A u \in FavUsers, f \in FavForms : \A net \in FetchNets(f), fav \in {FavPng, FavIco} :
         (f.title # <<>> /\ net.exc \in ConnectionErrors)
         => UpdateStores(u, f, net, fav,
                         LAMBDA b : /\ response' = "editbookmark"
                                    /\ b.http_status = HTTP_CONNECTIONERROR)]_vars

\* a request with a title was served after its HEAD request failed: the row
\* has http_status 0 and nothing else was requested
C24_Witness ==
    /\ response = "editbookmark"
    /\ calls = <<"HEAD">>
    /\ \E i \in DOMAIN bookmarks :
           /\ bookmarks[i].http_status = HTTP_CONNECTIONERROR
           /\ bookmarks[i].title = TitleT

(***************************************************************************)
(* The life of a bookmark: one user adds, edits, deletes, restores and     *)
(* lists bookmarks while time passes                                       *)
(***************************************************************************)
\* the where clause of _find_bookmarks
find_bookmarks(bms, userkey, filter_text) ==
    {i \in DOMAIN bms : /\ bms[i].userkey = userkey
                        /\ \/ Contains(bms[i].title, filter_text)
                           \/ Contains(bms[i].url, filter_text)
                           \/ Contains(bms[i].note, filter_text)
                        /\ bms[i].status = VISIBLE}

\* the ids of the rows get_bookmarks selects; filtermethod "none" is the
\* route without /filter/
get_bookmarks(bms, userkey, filtermethod, filter_text) ==
    IF filter_text # <<>> THEN find_bookmarks(bms, userkey, filter_text)
    ELSE IF filtermethod = "starred"
    THEN {i \in DOMAIN bms : bms[i].userkey = userkey /\ bms[i].starred}
    ELSE IF filtermethod = "broken"
    THEN {i \in DOMAIN bms : bms[i].userkey = userkey /\ bms[i].http_status # 200}
    ELSE IF filtermethod = "note"
    THEN {i \in DOMAIN bms : bms[i].userkey = userkey /\ bms[i].note # <<>>}
    ELSE {i \in DOMAIN bms : bms[i].userkey = userkey /\ bms[i].status = VISIBLE}

\* /<userkey> and /<userkey>/filter/<filtermethod>, GET or POST with
\* filter_text
bookmarks_page(userkey, filtermethod, filter_text) ==
    /\ UNCHANGED <<users, bookmarks, publictags, all_tags, favicons, keys_issued,
                   now, tagvars, procs, revoked>>
    /\ calls' = <<>>
    /\ \E q \in OrderByCreatedDesc(bookmarks,
                  get_bookmarks(bookmarks, userkey, filtermethod, filter_text)) :
         /\ response' = "bookmarks.html"
         /\ page' = [i \in DOMAIN q |-> bookmarks[q[i]]]

\* Specification of the life of a bookmark: the page answers 200
LifeNext ==
    \/ \E u \in FavUsers, f \in FavForms : addingbookmark(u, f, FavNet(f), FavPng)
    \/ \E u \in FavUsers, h \in UrlHashes, f \in FavForms :
           editingbookmark(u, h, f, FavNet(f), FavPng)
    \/ \E u \in FavUsers, h \in UrlHashes : deletingbookmark(u, h)
    \/ \E u \in FavUsers, h \in UrlHashes : undeletebookmark(u, h)
    \/ Tick

SpecLife == Init /\ [][LifeNext]_vars

\* the listings: bookmarks of pages that answer 200 or 404 are added, deleted
\* and restored, and listed with every filter, with and without filter_text
ListNext ==
    \/ \E u \in FavUsers, f \in FavForms :
       \E net \in (IF f.title = <<>> THEN {GetOk, GetNotFound} ELSE {HeadOk}) :
           addingbookmark(u, f, net, FavPng)
    \/ \E u \in FavUsers, h \in UrlHashes : deletingbookmark(u, h)
    \/ \E u \in FavUsers, h \in UrlHashes : undeletebookmark(u, h)
    \/ \E u \in FavUsers, fm \in {"none", "starred", "broken", "note"},
          ft \in {<<>>, <<"x">>} : bookmarks_page(u, fm, ft)

SpecList == Init /\ [][ListNext]_vars

\* C25: a delete request for a (userkey, url_hash) whose rows are all DELETED
\* already is served like the first one and leaves the Bookmark table as it
\* was.
C25_DeleteIdempotent ==
    [][\A u \in FavUsers, h \in UrlHashes :
         (/\ ByHash(bookmarks, u, h) # {}
          /\ \A i \in ByHash(bookmarks, u, h) : bookmarks[i].status = DELETED
          /\ deletingbookmark(u, h))
         => (response' = "Bookmark deleted" /\ bookmarks' = bookmarks)]_vars

\* the part of C25 that leaves deleted_date out: served, and every field but
\* deleted_date as it was
C25_DeleteAgainKeepsRest ==
    [][\A u \in FavUsers, h \in UrlHashes :
         (/\ ByHash(bookmarks, u, h) # {}
          /\ \A i \in ByHash(bookmarks, u, h) : bookmarks[i].status = DELETED
          /\ deletingbookmark(u, h))
         => /\ response' = "Bookmark deleted"
            /\ DOMAIN bookmarks' = DOMAIN bookmarks
            /\ \A i \in DOMAIN bookmarks :
                 [bookmarks'[i] EXCEPT !.deleted_date = 0]
                 = [bookmarks[i] EXCEPT !.deleted_date = 0]]_vars

\* C26: the row an add request inserts has no modified_date; the
\* modified_date of a row changes only in an edit request for its (userkey,
\* url_hash) that is served, and every served edit request sets the
\* modified_date of the row it wrote to the time of the request; delete,
\* undelete and add requests change no modified_date.
C26_ModifiedDate ==
    [][/\ \A i \in DOMAIN bookmarks' \ DOMAIN bookmarks :
            bookmarks'[i].modified_date = NullDate
       /\ \A i \in DOMAIN bookmarks :
            bookmarks'[i].modified_date # bookmarks[i].modified_date
            => /\ \E f \in FavForms :
                    editingbookmark(bookmarks[i].userkey, bookmarks[i].url_hash,
                                    f, FavNet(f), FavPng)
               /\ response' = "editbookmark"
               /\ bookmarks'[i].modified_date = now
       /\ \A u \in FavUsers, h \in UrlHashes, f \in FavForms :
            (ByHash(bookmarks, u, h) # {} /\ editingbookmark(u, h, f, FavNet(f), FavPng))
            => \E id \in ByHash(bookmarks, u, h) :
                   /\ bookmarks' = [bookmarks EXCEPT ![id] = bookmarks'[id]]
                   /\ bookmarks'[id].modified_date = now]_vars

\* a bookmark created at time 1 that was edited at time 2, then deleted and
\* restored
C26_Witness ==
    \E i \in DOMAIN bookmarks :
        /\ bookmarks[i].created_date = 1
        /\ bookmarks[i].modified_date = 2
        /\ bookmarks[i].deleted_date = 2
        /\ bookmarks[i].status = VISIBLE
        /\ response = "Bookmark restored"

\* C27: the page of a listing of a user's bookmarks, with or without a filter,
\* holds no bookmark with status DELETED.
C27_NoDeletedListed ==
    response = "bookmarks.html" => \A i \in DOMAIN page : page[i].status # DELETED

(***************************************************************************)
(* Requests of one user served by concurrent threads: each request is a    *)
(* process of procs that takes its steps (the statements on the Bookmark   *)
(* table, the recomputation of the tag list, the assignment to all_tags)   *)
(* one at a time, other requests taking steps in between                   *)
(***************************************************************************)
MaxRequests == 2

\* a request that arrived: op its route, pc the statement it is at, row the
\* Bookmark object it holds in memory and id the row of the table that
\* object belongs to, tags the list get_tags_for_user returned to it, result
\* its answer
NewProc(op, userkey, form, urlhash) ==
    [op |-> op, userkey |-> userkey, form |-> form, urlhash |-> urlhash,
     pc |-> CASE op = "add" -> "get"
              [] op = "edit" -> "load"
              [] OTHER -> "update",
     id |-> 0, row |-> NewBookmark(userkey, form.url, 0), tags |-> <<>>,
     result |-> "none"]

RaceFrame == UNCHANGED <<users, publictags, keys_issued, now, tagvars, revoked, page>>

\* a request arrives
BeginRequest(op, userkey, form, urlhash) ==
    /\ Len(procs) < MaxRequests
    /\ procs' = Append(procs, NewProc(op, userkey, form, urlhash))
    /\ UNCHANGED <<bookmarks, all_tags, favicons, response, calls>>
    /\ RaceFrame

\* get_or_create, the SELECT: the row exists and the request is answered
\* with the redirect, or it does not
get_or_create_get(p) ==
    /\ procs[p].pc = "get"
    /\ IF ByUrl(bookmarks, procs[p].userkey, procs[p].form.url) # {}
       THEN /\ procs' = [procs EXCEPT ![p].pc = "done", ![p].result = ExistingBookmark]
            /\ response' = ExistingBookmark
       ELSE /\ procs' = [procs EXCEPT ![p].pc = "insert"]
            /\ UNCHANGED response
    /\ calls' = <<>>
    /\ UNCHANGED <<bookmarks, all_tags, favicons>>
    /\ RaceFrame

\* get_or_create, the INSERT after the SELECT found nothing
get_or_create_insert(p) ==
    /\ procs[p].pc = "insert"
    /\ Len(bookmarks) < MaxBookmarks
    /\ bookmarks' = Append(bookmarks,
                           NewBookmark(procs[p].userkey, procs[p].form.url, now))
    /\ procs' = [procs EXCEPT ![p].pc = "save", ![p].id = Len(bookmarks) + 1,
                              ![p].row = NewBookmark(procs[p].userkey,
                                                     procs[p].form.url, now)]
    /\ calls' = <<>>
    /\ UNCHANGED <<all_tags, favicons, response>>
    /\ RaceFrame

\* Bookmark.get of an edit request, and modified_date on the object
get_for_edit(p) ==
    /\ procs[p].pc = "load"
    /\ IF ByHash(bookmarks, procs[p].userkey, procs[p].urlhash) = {}
       THEN /\ procs' = [procs EXCEPT ![p].pc = "done", ![p].result = "500"]
            /\ response' = "500"
       ELSE /\ \E id \in ByHash(bookmarks, procs[p].userkey, procs[p].urlhash) :
                 procs' = [procs EXCEPT ![p].pc = "save", ![p].id = id,
                                        ![p].row = [bookmarks[id] EXCEPT
                                                      !.modified_date = now]]
            /\ UNCHANGED response
    /\ calls' = <<>>
    /\ UNCHANGED <<bookmarks, all_tags, favicons>>
    /\ RaceFrame

\* the fields, the request to the page, the favicon and bookmark.save(): the
\* UPDATE of the row with the fields of the object
save_bookmark(p) ==
    /\ procs[p].pc = "save"
    /\ bookmarks' = [bookmarks EXCEPT ![procs[p].id] =
                       FillBookmark(procs[p].row, procs[p].form, favicons,
                                    FavNet(procs[p].form), FavPng).bookmark]
    /\ favicons' = FillBookmark(procs[p].row, procs[p].form, favicons,
                                FavNet(procs[p].form), FavPng).favicons
    /\ calls' = FillBookmark(procs[p].row, procs[p].form, favicons,
                             FavNet(procs[p].form), FavPng).calls
    /\ procs' = [procs EXCEPT ![p].pc = "tags"]
    /\ UNCHANGED <<all_tags, response>>
    /\ RaceFrame

\* the UPDATEs of a delete or undelete request
update_status(p) ==
    /\ procs[p].pc = "update"
    /\ bookmarks' = [i \in DOMAIN bookmarks |->
                       IF i \in ByHash(bookmarks, procs[p].userkey, procs[p].urlhash)
                       THEN IF procs[p].op = "delete"
                            THEN [bookmarks[i] EXCEPT !.status = DELETED,
                                                      !.deleted_date = now]
                            ELSE [bookmarks[i] EXCEPT !.status = VISIBLE]
                       ELSE bookmarks[i]]
    /\ procs' = [procs EXCEPT ![p].pc = "tags"]
    /\ calls' = <<>>
    /\ UNCHANGED <<all_tags, favicons, response>>
    /\ RaceFrame

\* the right-hand side of all_tags[userkey] = get_tags_for_user(userkey)
recompute_tags(p) ==
    /\ procs[p].pc = "tags"
    /\ procs' = [procs EXCEPT ![p].pc = "cache",
                              ![p].tags = get_tags_for_user(bookmarks, procs[p].userkey)]
    /\ calls' = <<>>
    /\ UNCHANGED <<bookmarks, all_tags, favicons, response>>
    /\ RaceFrame

RaceAnswer(op) ==
    CASE op = "delete" -> "Bookmark deleted"
      [] op = "undelete" -> "Bookmark restored"
      [] OTHER -> "editbookmark"

\* the assignment to all_tags[userkey], and the answer
replace_cache(p) ==
    /\ procs[p].pc = "cache"
    /\ all_tags' = SetCache(all_tags, procs[p].userkey, procs[p].tags)
    /\ procs' = [procs EXCEPT ![p].pc = "done", ![p].result = RaceAnswer(procs[p].op)]
    /\ response' = RaceAnswer(procs[p].op)
    /\ calls' = <<>>
    /\ UNCHANGED <<bookmarks, favicons>>
    /\ RaceFrame

\* two forms with the url http://x/p
RaceNext ==
    \/ \E op \in {"add", "edit", "delete", "undelete"}, u \in FavUsers,
          f \in {FormPlain, FormAB} : BeginRequest(op, u, f, md5_hexdigest(UrlP))
    \/ \E p \in DOMAIN procs : get_or_create_get(p)
    \/ \E p \in DOMAIN procs : get_or_create_insert(p)
    \/ \E p \in DOMAIN procs : get_for_edit(p)
    \/ \E p \in DOMAIN procs : save_bookmark(p)
    \/ \E p \in DOMAIN procs : update_status(p)
    \/ \E p \in DOMAIN procs : recompute_tags(p)
    \/ \E p \in DOMAIN procs : replace_cache(p)

SpecRace == Init /\ [][RaceNext]_vars

\* no request is in flight
Quiescent == \A p \in DOMAIN procs : procs[p].pc = "done"

\* C28: once two add requests of one user for one url have both finished,
\* the Bookmark table holds at most one row of that user with that url and at
\* most one of the two was answered as a successful creation.
C28_OneCreateWins ==
    Quiescent =>
      \A p, q \in DOMAIN procs :
        (/\ p # q
         /\ procs[p].op = "add" /\ procs[q].op = "add"
         /\ procs[p].userkey = procs[q].userkey
         /\ procs[p].form.url = procs[q].form.url)
        => /\ Cardinality(ByUrl(bookmarks, procs[p].userkey, procs[p].form.url)) <= 1
           /\ ~(procs[p].result = "editbookmark" /\ procs[q].result = "editbookmark")

\* C29: in every state in which no request is in flight and some request was
\* served, the cached tag list of the user is the canonical list of the tags
\* on the user's VISIBLE bookmarks.
C29_CacheFreshWhenQuiescent ==
    (Quiescent /\ procs # <<>>) =>
      \A u \in FavUsers :
        u \in DOMAIN all_tags => all_tags[u] = get_tags_for_user(bookmarks, u)

(***************************************************************************)
(* Two users side by side: both add, edit, delete and restore bookmarks of *)
(* the same urls and make and remove shares of the same tag                *)
(***************************************************************************)
\* the bookmark u2 has when the requests start
FrameRow == FillBookmark(NewBookmark("u2", UrlP, 1), FormPlain, {}, GetOk, FavPng)

\* The state after /SYSTEMKEY/adduser twice, POST /u2/adding with FormPlain
\* and /u2/a/makepublic
FrameInit ==
    /\ users = UserKeys
    /\ bookmarks = <<FrameRow.bookmark>>
    /\ publictags = {[id |-> 1, tagkey |-> 1, userkey |-> "u2", tag |-> <<"a">>,
                      created_date |-> 1]}
    /\ all_tags = [u \in UserKeys |->
                     get_tags_for_user(<<FrameRow.bookmark>>, u)]
    /\ favicons = FrameRow.favicons
    /\ keys_issued = 1
    /\ now = 1
    /\ response = "Public link to this tag created"
    /\ revoked = {}
    /\ page = <<>>
    /\ calls = <<>>
    /\ procs = <<>>
    /\ TagIdle

\* both users add the url http://x/p, edit, delete and restore the bookmark
\* of its hash, and make and remove shares of the tag a
FrameNext ==
    \/ \E u \in UserKeys : addingbookmark(u, FormPlain, GetOk, FavPng)
    \/ \E u \in UserKeys : editingbookmark(u, md5_hexdigest(UrlP), FormAB, HeadOk, FavPng)
    \/ \E u \in UserKeys : deletingbookmark(u, md5_hexdigest(UrlP))
    \/ \E u \in UserKeys : undeletebookmark(u, md5_hexdigest(UrlP))
    \/ \E u \in UserKeys : addpublictag(u, <<"a">>)
    \/ \E u \in UserKeys, k \in 1..MaxTagKeys : removepublictag(u, <<"a">>, k)

SpecFrame == FrameInit /\ [][FrameNext]_vars

\* what user b owns: the Bookmark rows, the PublicTag rows and the entry of
\* the tag cache
OwnedBy(b) ==
    <<SelectSeq(bookmarks, LAMBDA r : r.userkey = b),
      {r \in publictags : r.userkey = b},
      IF b \in DOMAIN all_tags THEN <<all_tags[b]>> ELSE <<>>>>

\* a request with user key a
RequestOf(a) ==
    \/ addingbookmark(a, FormPlain, GetOk, FavPng)
    \/ editingbookmark(a, md5_hexdigest(UrlP), FormAB, HeadOk, FavPng)
    \/ deletingbookmark(a, md5_hexdigest(UrlP))
    \/ undeletebookmark(a, md5_hexdigest(UrlP))
    \/ addpublictag(a, <<"a">>)
    \/ \E k \in 1..MaxTagKeys : removepublictag(a, <<"a">>, k)

\* C30: an add, edit, delete, undelete, makepublic or removepublic request
\* with user key a leaves the Bookmark rows, the PublicTag rows and the
\* cached tag list of every other user key as they were.
C30_OtherUsersUntouched ==
    [][\A a \in UserKeys :
         RequestOf(a) => \A b \in UserKeys \ {a} : OwnedBy(b)' = OwnedBy(b)]_vars

\* both users have a bookmark of the same url_hash and had a share of the tag
\* a: the requests of u1 deleted its bookmark and removed its share, the
\* bookmark, the share and the cached tags of u2 are there
C30_Witness ==
    /\ \E i, j \in DOMAIN bookmarks :
           /\ bookmarks[i].userkey = "u1" /\ bookmarks[j].userkey = "u2"
           /\ bookmarks[i].url_hash = bookmarks[j].url_hash
           /\ bookmarks[i].status = DELETED /\ bookmarks[j].status = VISIBLE
    /\ \E r \in revoked : r.userkey = "u1" /\ r.tag = <<"a">>
    /\ \E r \in publictags : r.userkey = "u2" /\ r.tag = <<"a">>
    /\ ~\E r \in publictags : r.userkey = "u1"
    /\ "u2" \in DOMAIN all_tags /\ all_tags["u2"] # <<>>
    /\ "u1" \in DOMAIN all_tags /\ all_tags["u1"] = <<>>

====
